---------------------------- MODULE Spec2Model ----------------------------
(***************************************************************************)
(* The interactive cat scene of src/components/LonelyCat.tsx (CatScene,    *)
(* lines 1149-1569): the behaviour tree, the input handlers, the Matter    *)
(* body and the derivation of the display state.                           *)
(*                                                                         *)
(* Lengths are fixed-point numbers, 1000 to the unit (Px(1) is one world   *)
(* unit); speeds are thousandths of a unit per tick; times are             *)
(* milliseconds.  An optional value (null / undefined in the source) is    *)
(* the empty sequence, a present value v is <<v>>.                         *)
(***************************************************************************)
EXTENDS Integers, Sequences, FiniteSets, TLC

(***************************************************************************)
(* Bounds of the model.                                                    *)
(***************************************************************************)
ViewW == 400         \* containerRef.clientWidth, in units
ViewH == 300         \* containerRef.clientHeight, in units
TickMs == 7500       \* wall-clock time between two update callbacks
MaxFrame == 70       \* update callbacks per run
MaxLoadFrames == 1   \* update callbacks that may run before create() resumes
MaxEvents == 2       \* input events and low-probability random outcomes per run
SeekMaxFrame == 240  \* update callbacks per run of a single seek
TexMaxFrame == 70    \* update callbacks per run of the texture pipeline
MaxReruns == 1       \* re-runs of the mount effect while the container stays
GenMaxFrame == 2     \* generator calls use frames 0..GenMaxFrame
GenMaxCalls == 3     \* entries in the memo table before generator calls stop
CreateMaxFrame == 12   \* update callbacks per run with a slow first image
CreateLoadFrames == 4  \* update callbacks that may run before create() resumes
GameW == 800           \* width of the CatGame canvas
GameH == 600           \* height of the CatGame canvas
GameMaxEvents == 1     \* velocities Wander draws per run of CatGame
PageTickMs == 25       \* granularity of time for the pages' timers
PageMaxRemounts == 2   \* effect re-runs and remounts of a page per run
LongMaxFrame == 750    \* update callbacks of a long session
BlinkTickMs == 50      \* delta of a short frame of a session of blinks
BlinkLongMs == 4000    \* delta of a long frame of a session of blinks
BlinkMaxFrame == 9     \* update callbacks of a session of blinks
AnimationTickMs == 50     \* how far the clock of CatAnimation moves in a step
AnimationMaxReruns == 3   \* effect re-runs and remounts of CatAnimation
ArrowMaxFrame == 330   \* update callbacks of a keyboard session
ArrowMaxPresses == 4   \* Arrow keys pressed in a keyboard session
MaxCallbacks == 3    \* update callbacks counted per run of the mount effect

\* the frame buckets (frame % 60) of the texture keys whose image may stay
\* in flight across update callbacks, or fail
SlowBuckets == { 6, 9 }

\* the frames after which an input event may arrive and in which a
\* low-probability random outcome may be drawn
EventFrames == { 1, 5, 6, 20, 60 }

(***************************************************************************)
(* Arithmetic.                                                             *)
(***************************************************************************)
Px(n) == n * 1000

Abs(a) == IF a < 0 THEN -a ELSE a

Min(a, b) == IF a <= b THEN a ELSE b

Max(a, b) == IF a >= b THEN a ELSE b

\* a / b rounded toward zero, as a scaled real product is
Trunc(a, b) == IF a >= 0 THEN a \div b ELSE -((-a) \div b)

RECURSIVE SqrtSearch(_, _, _)
SqrtSearch(n, lo, hi) ==
    IF lo >= hi THEN lo
    ELSE LET mid == (lo + hi + 1) \div 2
         IN  IF mid * mid <= n THEN SqrtSearch(n, mid, hi)
                               ELSE SqrtSearch(n, lo, mid - 1)

\* floor of the square root, for 0 <= n < 2^31
ISqrt(n) == SqrtSearch(n, 0, 46340)

\* Math.hypot on fixed-point arguments; operands too large to square in
\* 32 bits are pre-scaled by 16
Hypot(a, b) ==
    IF Abs(a) < 32000 /\ Abs(b) < 32000
    THEN ISqrt(a * a + b * b)
    ELSE 16 * ISqrt((Abs(a) \div 16) * (Abs(a) \div 16)
                    + (Abs(b) \div 16) * (Abs(b) \div 16))

None == << >>

Some(v) == << v >>

Point(px, py) == [x |-> px, y |-> py]

(***************************************************************************)
(* Program constants.                                                      *)
(***************************************************************************)
ArrivalRadius == Px(10)             \* dist < 10
maxSpeed == Px(3)
acceleration == Px(1) \div 10       \* 0.1
LoadingDelayMs == 300
SleepAfterMs == 30000
MovingThreshold == Px(1) \div 2     \* speed > 0.5
ProximityRadius == Px(100)
ArrowStep == Px(100)
NudgeStep == Px(50)
BlinkMs == 150
A11yDelayMs == 100
NoMargin == Px(0)
catMargin == Px(120)
BodyHalfW == Px(120) \div 2
BodyHalfH == Px(160) \div 2
FrameBuckets == 60
TextureEvery == 3

centerX == Px(ViewW) \div 2

centerY == Px(ViewH) \div 2

\* b3 status codes
SUCCESS == "SUCCESS"

FAILURE == "FAILURE"

RUNNING == "RUNNING"

VARIABLES
    now,        \* Date.now()
    created,    \* create() has resumed after the initial texture: cat, tree
                \* and the pointer handlers exist
    keysReady,  \* the keydown listener of setupAccessibility is attached
    anim,       \* animationState
    bb,         \* the blackboard entries of this tree
    cat,        \* the sprite's Matter body: position and velocity
    tex,        \* SVGTextureManager and the sprite's texture
    timers,     \* pending this.time.delayedCall callbacks
    shift,      \* the pending triggerBodyShift tween, if any
    last,       \* what the latest update callback did (history)
    input,      \* the latest input event (history)
    events,     \* input events and random outcomes so far (history)
    life,       \* the component's mount effect: its init() calls and Games
    page,       \* a page component: its loading flag, timer and rendering
    animation   \* a CatAnimation component: its frame, interval and rendering

sceneVars == << now, created, keysReady, anim, bb, cat, tex, timers, shift,
                last, input, events >>

vars == << sceneVars, life, page, animation >>


(***************************************************************************)
(* The random numbers one update callback draws.  kind names the one       *)
(* low-probability branch the draws select ("none": no such branch is      *)
(* taken); jitter is the blink threshold's Math.random() * 2000.           *)
(***************************************************************************)
Draw(k, dx, dy, sp) == [kind |-> k, vx |-> dx, vy |-> dy, speed |-> sp]

NoDraw == Draw("none", 0, 0, 0)

\* Math.cos(angle) * speed, Math.sin(angle) * speed for speed in [0.5, 1)
WanderDraws ==
    { Draw("wander", 0, -(Px(1) \div 2), 0),
      Draw("wander", -(Px(54) \div 100), (Px(72) \div 100), 0) }

\* the centre-seeking branch: speed in [0.3, 0.6)
AttractDraws == { Draw("attract", 0, 0, (Px(55) \div 100)) }

\* (Math.random() - 0.5) * 6 and (Math.random() - 0.5) * 4
ShiftDraws == { Draw("shift", -Px(3) + 1, Px(2) - 1, 0) }

RareDraws == WanderDraws \cup AttractDraws \cup ShiftDraws \cup { Draw("blink", 0, 0, 0) }

BlinkJitter == { 0, 1999 }

(***************************************************************************)
(* The scene an update callback works on: the variables it reads and       *)
(* writes, and the record of what it has done so far.                      *)
(***************************************************************************)
NoTrace ==
    [ evaluated |-> << >>,   \* behaviours ticked, in order, with their status
      setters   |-> << >>,   \* behaviours that called cat.setVelocity
      cmd       |-> -1,      \* newSpeed of EnhancedMoveToTarget, if computed
      dist      |-> -1,      \* dist of EnhancedMoveToTarget, if computed
      tgt       |-> << >>,   \* the target EnhancedMoveToTarget read
      before    |-> [x |-> 0, y |-> 0, vx |-> 0, vy |-> 0],  \* body before the tree ran
      treeRan   |-> FALSE,
      contact   |-> FALSE,   \* the physics step met a world bound
      derived   |-> "",      \* display state derived by updateCatTexture
      prevDerived |-> "",    \* display state derived by the call before
      wanted    |-> << >>,   \* texture key of the latest updateCatTexture call
      generated |-> << >>,   \* the generator call updateCatTexture made
      threw     |-> FALSE,   \* update() threw
      rejected  |-> FALSE ]  \* updateCatTexture()'s promise was rejected

Scene == [ now |-> now, created |-> created, keysReady |-> keysReady, anim |-> anim,
           bb |-> bb, cat |-> cat, tex |-> tex, timers |-> timers, shift |-> shift,
           trace |-> [NoTrace EXCEPT
                        !.prevDerived = IF last.derived # "" THEN last.derived
                                        ELSE last.prevDerived,
                        !.wanted = last.wanted] ]

SetVelocity(s, who, nvx, nvy) ==
    [s EXCEPT !.cat.vx = nvx, !.cat.vy = nvy,
              !.trace.setters = Append(@, who)]

\* triggerBlinkAnimation
ClosesEyesOnly(s) == [s EXCEPT !.anim.eyeState = "closed"]

TriggerBlinkAnimation(s) ==
    [s EXCEPT !.anim.eyeState = "closed",
              !.timers = Append(@, [what |-> "open", left |-> BlinkMs])]

(***************************************************************************)
(* The behaviours.  Each returns its status and the scene it leaves.       *)
(***************************************************************************)
Result(status, s) == [st |-> status, s |-> s]

\* Math.min(maxSpeed, dist * 0.05)
TargetSpeed(dist) == Min(maxSpeed, dist \div 20)

NewSpeedNoRamp(currentSpeed, dist) == TargetSpeed(dist)

\* Math.min(currentSpeed + acceleration, targetSpeed)
NewSpeed(currentSpeed, dist) == Min(currentSpeed + acceleration, TargetSpeed(dist))

ArrivedNever(dist) == FALSE

\* dist < 10
Arrived(dist) == dist < ArrivalRadius

ArriveKeepsAnticipation(s) ==
    [SetVelocity(s, "EnhancedMoveToTarget", 0, 0)
       EXCEPT !.bb.target = None,
              !.anim.lastInteraction = s.now]

\* the dist < 10 branch: stop, clear target and anticipationStarted
Arrive(s) ==
    [SetVelocity(s, "EnhancedMoveToTarget", 0, 0)
       EXCEPT !.bb.target = None,
              !.bb.anticipationStarted = FALSE,
              !.anim.lastInteraction = s.now]

EnhancedMoveToTarget(s, d) ==
    IF s.bb.target = None THEN Result(FAILURE, s)
    ELSE
      LET target == s.bb.target[1]
          dx == target.x - s.cat.x
          dy == target.y - s.cat.y
          dist == Hypot(dx, dy)
          s1 == [s EXCEPT !.trace.dist = dist, !.trace.tgt = s.bb.target]
      IN  IF ~s.bb.anticipationStarted
          THEN Result(RUNNING, [s1 EXCEPT !.bb.anticipationStarted = TRUE])
          ELSE IF Arrived(dist)
          THEN Result(SUCCESS, Arrive(s1))
          ELSE
            LET currentSpeed == Hypot(s.cat.vx, s.cat.vy)
                newSpeed == NewSpeed(currentSpeed, dist)
            IN  Result(RUNNING,
                  [SetVelocity(s1, "EnhancedMoveToTarget",
                               Trunc(dx * newSpeed, dist), Trunc(dy * newSpeed, dist))
                     EXCEPT !.trace.cmd = newSpeed])

ProximityResponse(s, d) ==
    IF s.bb.userProximity
    THEN LET s1 == [s EXCEPT !.anim.lastInteraction = s.now,
                             !.anim.isSleeping = FALSE]
         IN  Result(SUCCESS, IF d.kind = "blink" THEN TriggerBlinkAnimation(s1) ELSE s1)
    ELSE Result(FAILURE, s)

SleepDueLate(t) == t > 2 * SleepAfterMs

\* timeSinceLastInteraction > 30000
SleepDue(t) == t > SleepAfterMs

SleepMode(s, d) ==
    IF SleepDue(s.now - s.anim.lastInteraction)
    THEN Result(SUCCESS,
           SetVelocity([s EXCEPT !.anim.isSleeping = TRUE], "SleepMode", 0, 0))
    ELSE Result(FAILURE, s)

EnhancedWander(s, d) ==
    IF s.anim.isSleeping THEN Result(FAILURE, s)
    ELSE
      LET ddx == centerX - s.cat.x
          ddy == centerY - s.cat.y
          distanceFromCenter == Hypot(ddx, ddy)
          maxDistance == (Min(Px(ViewW), Px(ViewH)) * 4) \div 10
      IN  IF distanceFromCenter > maxDistance /\ d.kind = "attract"
          THEN Result(RUNNING,
                 SetVelocity(s, "EnhancedWander",
                             Trunc(ddx * d.speed, distanceFromCenter),
                             Trunc(ddy * d.speed, distanceFromCenter)))
          ELSE IF d.kind = "wander"
          THEN Result(RUNNING, SetVelocity(s, "EnhancedWander", d.vx, d.vy))
          ELSE Result(RUNNING, s)

\* the children of the Priority root, highest priority first
Children == << "EnhancedMoveToTarget", "ProximityResponse", "SleepMode", "EnhancedWander" >>

Execute(b, s, d) ==
    LET r == CASE b = "EnhancedMoveToTarget" -> EnhancedMoveToTarget(s, d)
               [] b = "ProximityResponse"    -> ProximityResponse(s, d)
               [] b = "SleepMode"            -> SleepMode(s, d)
               [] b = "EnhancedWander"       -> EnhancedWander(s, d)
    IN  Result(r.st, [r.s EXCEPT !.trace.evaluated = Append(@, [b |-> b, st |-> r.st])])

RECURSIVE PriorityAll(_, _, _)
PriorityAll(i, s, d) ==
    IF i > Len(Children) THEN Result(FAILURE, s)
    ELSE LET r == Execute(Children[i], s, d)
             rest == PriorityAll(i + 1, r.s, d)
         IN  Result(IF r.st # FAILURE THEN r.st ELSE rest.st, rest.s)

RECURSIVE PriorityFrom(_, _, _)
\* b3.Priority: tick the children in order and return the first status
\* that is not FAILURE; FAILURE when every child fails
PriorityFrom(i, s, d) ==
    IF i > Len(Children) THEN Result(FAILURE, s)
    ELSE LET r == Execute(Children[i], s, d)
         IN  IF r.st # FAILURE THEN r ELSE PriorityFrom(i + 1, r.s, d)

\* this.tree.tick(this, this.blackboard)
TreeTick(s, d) ==
    LET s0 == [s EXCEPT !.trace.treeRan = TRUE,
                        !.trace.before = s.cat]
    IN  PriorityFrom(1, s0, d).s


(***************************************************************************)
(* The engine's part of a frame, run before update(): the scene clock,     *)
(* the tweens and the Matter step.                                         *)
(***************************************************************************)
RECURSIVE FireTimers(_, _, _)
\* Phaser Clock: a delayedCall fires once its delay has elapsed
FireTimers(s, ts, el) ==
    IF ts = << >> THEN s
    ELSE LET t == Head(ts)
             s1 == IF t.left - el > 0
                   THEN [s EXCEPT !.timers = Append(@, [t EXCEPT !.left = @ - el])]
                   ELSE IF t.what = "open"
                   THEN [s EXCEPT !.anim.eyeState = "open"]
                   ELSE [s EXCEPT !.keysReady = TRUE]
         IN  FireTimers(s1, Tail(ts), el)

ClockUpdate(s, el) == FireTimers([s EXCEPT !.timers = << >>], s.timers, el)

\* the triggerBodyShift tween (1500-2500 ms) writes cat.x and cat.y; a frame
\* of TickMs completes it
TweenUpdate(s) ==
    IF s.shift = None THEN s
    ELSE [s EXCEPT !.cat.x = s.shift[1].x, !.cat.y = s.shift[1].y, !.shift = None]

\* the positions the 120 x 160 body can take inside the world bounds
\* (-catMargin, -catMargin, width + 2 catMargin, height + 2 catMargin)
MinX == -catMargin + BodyHalfW

MaxX == -catMargin + (Px(ViewW) + 2 * catMargin) - BodyHalfW

MinY == -catMargin + BodyHalfH

MaxY == -catMargin + (Px(ViewH) + 2 * catMargin) - BodyHalfH

HeavyDecay(v) == Trunc(v, 2)

\* Matter.Body.update with frictionAir 0.05: velocity * (1 - 0.05)
AirDecay(v) == Trunc(v * 19, 20)

\* one Matter step: air friction, integration, and the world bounds, which
\* stop the body (restitution 0.1 is below Matter's resting threshold at
\* these speeds)
PhysicsStep(s) ==
    IF ~s.created THEN s
    ELSE
      LET vx1 == AirDecay(s.cat.vx)
          vy1 == AirDecay(s.cat.vy)
          x1 == s.cat.x + vx1
          y1 == s.cat.y + vy1
          hitX == x1 < MinX \/ x1 > MaxX
          hitY == y1 < MinY \/ y1 > MaxY
      IN  [s EXCEPT !.cat = [x |-> Max(MinX, Min(MaxX, x1)),
                             y |-> Max(MinY, Min(MaxY, y1)),
                             vx |-> IF hitX THEN 0 ELSE vx1,
                             vy |-> IF hitY THEN 0 ELSE vy1],
                    !.trace.contact = hitX \/ hitY]

(***************************************************************************)
(* update() and what it calls.                                             *)
(***************************************************************************)
\* updateNaturalAnimations: the blink timer and triggerBodyShift (the
\* rotation and scale tweens of triggerMicroMovements and triggerEarTwitch
\* change nothing modelled here)
UpdateNaturalAnimations(s, el, d, jitter) ==
    LET s1 == [s EXCEPT !.anim.blinkTimer = @ + el]
        s2 == IF s1.anim.blinkTimer > 3000 + jitter
              THEN [(IF ~s1.anim.isSleeping THEN TriggerBlinkAnimation(s1) ELSE s1)
                      EXCEPT !.anim.blinkTimer = 0]
              ELSE s1
    IN  IF d.kind = "shift"
        THEN IF s.created
             THEN [s2 EXCEPT !.shift = Some(Point(s2.cat.x + d.vx, s2.cat.y + d.vy))]
             ELSE [s2 EXCEPT !.trace.threw = TRUE]   \* this.cat is undefined
        ELSE s2

\* Math.atan2 in thousandths of a radian (rational approximation, within
\* 0.004 rad)
Atan2Milli(y, x) ==
    IF x = 0 /\ y = 0 THEN 0
    ELSE
      LET ax == Abs(x)
          ay == Abs(y)
          z == IF ax >= ay THEN (ay * 1000) \div ax ELSE (ax * 1000) \div ay
          a0 == (z * (785 + (273 * (1000 - z)) \div 1000)) \div 1000
          a == IF ax >= ay THEN a0 ELSE 1571 - a0
          t == IF x >= 0 THEN a ELSE 3142 - a
      IN  IF y >= 0 THEN t ELSE -t

\* Math.round(v * 10) for v in thousandths
Round10(v) == (v + 50) \div 100

IdleCacheKey(frame, eyeState) == << "idle", IF eyeState = "open" THEN 1 ELSE 0, 0, frame >>

MovingCacheKey(vx, vy, frame) ==
    << "moving", Round10(Atan2Milli(vy, vx)), Round10(Hypot(vx, vy)), frame >>

SleepingCacheKey(frame) == << "sleeping", 0, 0, frame >>

\* what the SVG text a generator builds varies with: the frame and the eye
\* state (idle), the unrounded direction and speed and the frame (moving),
\* the frame (sleeping)
IdleSvg(frame, eyeState) == << "idle", IF eyeState = "open" THEN 1 ELSE 0, 0, frame >>

MovingSvg(vx, vy, frame) == << "moving", Atan2Milli(vy, vx), Hypot(vx, vy), frame >>

SleepingSvg(frame) == << "sleeping", 0, 0, frame >>

\* the memo table of a generator: textureCache.has / get / set
Memo(cache, cacheKey, svg) ==
    IF \E e \in cache : e.key = cacheKey
    THEN [svg |-> (CHOOSE e \in cache : e.key = cacheKey).svg, cache |-> cache]
    ELSE [svg |-> svg, cache |-> cache \cup { [key |-> cacheKey, svg |-> svg] }]

generateIdleTexture(cache, frame, eyeState) ==
    Memo(cache, IdleCacheKey(frame, eyeState), IdleSvg(frame, eyeState))

generateMovingTexture(cache, vx, vy, frame) ==
    Memo(cache, MovingCacheKey(vx, vy, frame), MovingSvg(vx, vy, frame))

generateSleepingTexture(cache, frame) ==
    Memo(cache, SleepingCacheKey(frame), SleepingSvg(frame))

\* a generator call: its arguments and what it returned
Generated(kind, vx, vy, frame, eyeState, svg) ==
    [kind |-> kind, vx |-> vx, vy |-> vy, frame |-> frame, eyeState |-> eyeState,
     svg |-> svg]

TextureKeyOfFrame(kind, frame, eyeState) == << kind, frame, eyeState >>

\* `cat-sleeping-${frame % 60}`, `cat-moving-${frame % 60}`,
\* `cat-idle-${frame % 60}-${eyeState}`
TextureKey(kind, frame, eyeState) == << kind, frame % FrameBuckets, eyeState >>

\* speed > 0.5
IsMovingSpeed(speed) == speed > MovingThreshold

\* the part of updateCatTexture after the await: setTexture and currentTexture
ApplyTexture(s, key) ==
    [s EXCEPT !.tex.sprite = key, !.anim.currentTexture = key]

\* createTextureFromSVG up to the point where it returns its promise,
\* followed by the awaiting continuation when that promise is already
\* resolved
RequestTextureUnguarded(s, key) ==
    [s EXCEPT !.tex.createdTextures = @ \cup {key},
              !.tex.loading = @ \cup {key},
              !.tex.loads = Append(@, key)]

RequestTexture(s, key) ==
    IF key \in s.tex.createdTextures
    THEN ApplyTexture(s, key)
    ELSE [s EXCEPT !.tex.createdTextures = @ \cup {key},
                   !.tex.loading = @ \cup {key},
                   !.tex.loads = Append(@, key)]

UpdateCatTexture(s) ==
    IF ~s.created THEN [s EXCEPT !.trace.rejected = TRUE]   \* this.cat is undefined
    ELSE
      LET speed == Hypot(s.cat.vx, s.cat.vy)
          f == s.anim.frame
          state == IF s.anim.isSleeping THEN "sleeping"
                   ELSE IF IsMovingSpeed(speed) THEN "moving" ELSE "idle"
          g == CASE state = "sleeping" -> generateSleepingTexture(s.tex.textureCache, f)
                 [] state = "moving" ->
                      generateMovingTexture(s.tex.textureCache, s.cat.vx, s.cat.vy, f)
                 [] state = "idle" ->
                      generateIdleTexture(s.tex.textureCache, f, s.anim.eyeState)
          textureKey == CASE state = "sleeping" -> TextureKey("cat-sleeping", f, "")
                          [] state = "moving" -> TextureKey("cat-moving", f, "")
                          [] state = "idle" -> TextureKey("cat-idle", f, s.anim.eyeState)
          s1 == [s EXCEPT !.tex.textureCache = g.cache,
                          !.trace.generated =
                             Some(Generated(state, s.cat.vx, s.cat.vy, f,
                                            s.anim.eyeState, g.svg)),
                          !.anim.isMoving = IF state = "sleeping" THEN @
                                            ELSE state = "moving",
                          !.trace.derived = state,
                          !.trace.wanted = Some(textureKey)]
      IN  IF s1.anim.currentTexture # textureKey
          THEN RequestTexture(s1, textureKey)
          ELSE s1

\* update(_time, delta)
Update(s, el, d, jitter) ==
    LET s1 == [s EXCEPT !.anim.frame = @ + 1]
        s2 == UpdateNaturalAnimations(s1, el, d, jitter)
        s3 == IF s2.created THEN TreeTick(s2, d) ELSE s2
        s4 == IF s3.anim.frame % TextureEvery = 0 THEN UpdateCatTexture(s3) ELSE s3
    IN  IF s2.trace.threw THEN s2 ELSE s4

\* one frame of the game loop after el ms: the engine's step, then update()
FrameResult(el, d, jitter) ==
    Update(PhysicsStep(TweenUpdate(ClockUpdate([Scene EXCEPT !.now = @ + el], el))),
           el, d, jitter)

(***************************************************************************)
(* Inputs of the model: where the pointer goes down or moves, the keys,    *)
(* and the directions (cos, sin) of the Space key's random nudge.          *)
(***************************************************************************)
ClickPoints == { Point(centerX + Px(8), centerY), Point(centerX + Px(30), centerY - Px(40)) }

MovePoints == { Point(centerX + Px(50), centerY), Point(Px(10), Px(10)) }

ArrowKeys == { "ArrowUp", "ArrowDown", "ArrowLeft", "ArrowRight" }

\* thousandths: angle 0 and an angle with cos = -0.6, sin = 0.8
NudgeDirs == { Point(1000, 0), Point(-600, 800) }

\* an input event: its handler, whether the cat slept when it arrived, the
\* target it assigned and how far from the body that was; moved records
\* that the display state was derived as moving while that target was
\* pending
Input(h, t) ==
    [ handler |-> h, asleep |-> anim.isSleeping, at |-> t,
      dist |-> IF t = None THEN 0 ELSE Hypot(t[1].x - cat.x, t[1].y - cat.y),
      moved |-> FALSE,
      ticked |-> FALSE,             \* an update callback has run since
      key |-> "",                   \* event.key of an Arrow keydown
      pointer |-> input.pointer ]   \* where the last pointer-move was

NoInput ==
    [handler |-> "", asleep |-> FALSE, at |-> None, dist |-> 0, moved |-> FALSE,
     ticked |-> FALSE, key |-> "", pointer |-> None]

InitialKey == << "cat-initial", 0, "" >>

SceneInit ==
    /\ now = 0
    /\ created = FALSE
    /\ keysReady = FALSE
    /\ anim = [ frame |-> 0, blinkTimer |-> 0, lastInteraction |-> 0,
                isMoving |-> FALSE, isSleeping |-> FALSE, eyeState |-> "open",
                currentTexture |-> << "idle", 0, "" >> ]
    /\ bb = [ target |-> None, anticipationStarted |-> FALSE,
              userProximity |-> FALSE, cursorPosition |-> None ]
    /\ cat = [ x |-> 0, y |-> 0, vx |-> 0, vy |-> 0 ]
    /\ tex = [ textureCache |-> generateIdleTexture({}, 0, "open").cache,
               createdTextures |-> { InitialKey },
               registered |-> {},
               loading |-> { InitialKey },
               loads |-> << InitialKey >>,
               added |-> << >>,
               sprite |-> << "", 0, "" >> ]
    /\ timers = << >>
    /\ shift = None
    /\ last = NoTrace
    /\ input = NoInput
    /\ events = 0

\* one run of the mount effect: its init() (awaiting import('phaser'), done,
\* or failed) and the Game in its closure variable game
Effect(import, game) == [import |-> import, game |-> game]

\* the component is mounted, init() has constructed its Game
Mounted ==
    [ component |-> "LonelyCat", env |-> "production", mounted |-> TRUE,
      effects |-> << Effect("done", "alive") >>, gameRef |-> 1, reruns |-> 0, callbacks |-> 0, afterUnmount |-> FALSE,
      logged |-> 0, unhandled |-> 0 ]

\* what a page component renders: the loading indicator, or its scene
PageRender(c, loading) ==
    IF loading THEN { "loading" }
    ELSE IF c = "HomePage" THEN { "static", "screen", "cat" }
    ELSE { "tv" }

\* a page after its first render and effect: useState(true), and the
\* effect's setTimeout(..., 300) pending
PageMounted(c) ==
    [ component |-> c, mounted |-> TRUE, loading |-> TRUE,
      timers |-> { LoadingDelayMs }, shown |-> PageRender(c, TRUE),
      remounts |-> 0, lateUpdates |-> 0 ]

\* the page around the game has finished loading
PageLoaded ==
    [PageMounted("HomePage") EXCEPT !.loading = FALSE, !.timers = {},
                                    !.shown = PageRender("HomePage", FALSE)]

(* src/components/CatAnimation.tsx: the sprite-sheet cat of the home page *)

TenFrames == 9 + 1

\* const totalFrames = 9
totalFrames == 9

\* setInterval(..., 200)
FrameIntervalMs == 200

\* row, col, spriteX, spriteY and the backgroundPosition of the render
BackgroundPosition(currentFrame) ==
    LET row == currentFrame \div 3
        col == currentFrame % 3
    IN  [x |-> -col * 200, y |-> -row * 240]

\* useState(0), the first render, and the effect's setInterval; intervals
\* holds the time left to the next call of each interval of the component
Animated ==
    [ mounted |-> TRUE, currentFrame |-> 0, intervals |-> << FrameIntervalMs >>,
      backgroundPosition |-> BackgroundPosition(0),
      prevFrame |-> 0,      \* currentFrame of the render before (history)
      reruns |-> 0,         \* effect re-runs and remounts so far (history)
      lateUpdates |-> 0 ]   \* setCurrentFrame calls after the unmount

Init == SceneInit /\ life = Mounted /\ page = PageLoaded /\ animation = Animated

Commit(s) ==
    /\ now' = s.now
    /\ created' = s.created
    /\ keysReady' = s.keysReady
    /\ anim' = s.anim
    /\ bb' = s.bb
    /\ cat' = s.cat
    /\ tex' = s.tex
    /\ timers' = s.timers
    /\ shift' = s.shift
    /\ life' = life
    /\ page' = page
    /\ animation' = animation

\* an input event or a random outcome is within the model's bounds
MayHappen == events < MaxEvents /\ anim.frame \in EventFrames

\* the game loop can run a frame: the run is within its bounds
Runnable(limit) ==
    /\ anim.frame < limit
    /\ ~created => anim.frame < MaxLoadFrames
    /\ created => tex.loading = {}   \* a requested image loads within the frame

\* the game loop runs one frame, drawing at most one of the outcomes draws
\* (a draw that changes nothing counts as none)
AdvanceBy(el, draws) ==
    \E d \in draws \cup { NoDraw }, jitter \in BlinkJitter :
      LET r == FrameResult(el, d, jitter)
      IN  /\ d # NoDraw => r # FrameResult(el, NoDraw, jitter)
          /\ Commit(r)
          /\ last' = r.trace
          /\ events' = IF d = NoDraw THEN events ELSE events + 1
          /\ input' = [input EXCEPT !.moved =
                         \/ @
                         \/ /\ bb.target # None /\ bb.target = input.at
                            /\ r.trace.derived = "moving",
                                    !.ticked = TRUE]

\* a frame of TickMs
Advance(draws) == AdvanceBy(TickMs, draws)

Step(limit, draws) == Runnable(limit) /\ Advance(draws)

Frame == Step(MaxFrame, IF MayHappen THEN RareDraws ELSE {})

\* the body of img.onload: textures.addCanvas unless the key exists
AddCanvas(s, key) ==
    IF key \in s.tex.registered THEN s
    ELSE [s EXCEPT !.tex.registered = @ \cup { key },
                   !.tex.added = Append(@, key)]

\* img.onload of the initial texture: addCanvas, then create() resumes
CreateDone ==
    /\ ~created
    /\ InitialKey \in tex.loading
    /\ created' = TRUE
    /\ tex' = [AddCanvas(Scene, InitialKey).tex EXCEPT !.loading = @ \ { InitialKey },
                                                       !.sprite = InitialKey]
    /\ cat' = [ x |-> centerX, y |-> centerY, vx |-> 0, vy |-> 0 ]
    /\ timers' = Append(timers, [what |-> "a11y", left |-> A11yDelayMs])
    /\ UNCHANGED << now, keysReady, anim, bb, shift, last, input, events, life, page, animation >>

\* img.onload of a texture requested by updateCatTexture: addCanvas, then
\* the awaiting updateCatTexture resumes
ImageLoaded(key) ==
    /\ created
    /\ key \in tex.loading
    /\ LET s == [AddCanvas(Scene, key) EXCEPT !.tex.loading = @ \ { key }]
       IN  Commit(ApplyTexture(s, key))
    /\ UNCHANGED << last, input, events >>

\* img.onload in which drawImage or addCanvas throws: the catch logs a
\* warning, the promise is resolved all the same and the awaiting
\* updateCatTexture resumes
ImageThrows(key) ==
    /\ created
    /\ key \in tex.loading
    /\ key[2] \in SlowBuckets
    /\ Commit(ApplyTexture([Scene EXCEPT !.tex.loading = @ \ { key }], key))
    /\ UNCHANGED << last, input, events >>

PointerDownKeepsSleep(p) ==
    /\ created
    /\ MayHappen
    /\ bb' = [bb EXCEPT !.target = Some(p)]
    /\ anim' = [anim EXCEPT !.lastInteraction = now]
    /\ input' = Input("pointerdown", Some(p))
    /\ events' = events + 1
    /\ UNCHANGED << now, created, keysReady, cat, tex, timers, shift, last, life, page, animation >>

\* this.input.on('pointerdown')
PointerDown(p) ==
    /\ created
    /\ MayHappen
    /\ bb' = [bb EXCEPT !.target = Some(p)]
    /\ anim' = [anim EXCEPT !.lastInteraction = now, !.isSleeping = FALSE]
    /\ input' = Input("pointerdown", Some(p))
    /\ events' = events + 1
    /\ UNCHANGED << now, created, keysReady, cat, tex, timers, shift, last, life, page, animation >>

\* this.input.on('pointermove')
PointerMove(p) ==
    /\ created
    /\ MayHappen
    /\ LET distance == Hypot(p.x - cat.x, p.y - cat.y)
       IN  bb' = IF distance < ProximityRadius
                 THEN [bb EXCEPT !.userProximity = TRUE, !.cursorPosition = Some(p)]
                 ELSE [bb EXCEPT !.userProximity = FALSE]
    /\ input' = [Input("pointermove", None) EXCEPT !.pointer = Some(p)]
    /\ events' = events + 1
    /\ UNCHANGED << now, created, keysReady, anim, cat, tex, timers, shift, last, life, page, animation >>

ArrowTargetFromCentre(key) ==
    CASE key = "ArrowUp"    -> Point(centerX, centerY - ArrowStep)
      [] key = "ArrowDown"  -> Point(centerX, centerY + ArrowStep)
      [] key = "ArrowLeft"  -> Point(centerX - ArrowStep, centerY)
      [] key = "ArrowRight" -> Point(centerX + ArrowStep, centerY)

ArrowTarget(key) ==
    CASE key = "ArrowUp"    -> Point(cat.x, cat.y - ArrowStep)
      [] key = "ArrowDown"  -> Point(cat.x, cat.y + ArrowStep)
      [] key = "ArrowLeft"  -> Point(cat.x - ArrowStep, cat.y)
      [] key = "ArrowRight" -> Point(cat.x + ArrowStep, cat.y)

KeyArrowPushes(key) ==
    /\ keysReady
    /\ MayHappen
    /\ bb' = [bb EXCEPT !.target = Some(ArrowTarget(key))]
    /\ cat' = [cat EXCEPT !.vx = (ArrowTarget(key).x - cat.x) \div 100,
                          !.vy = (ArrowTarget(key).y - cat.y) \div 100]
    /\ input' = [Input("arrow", bb'.target) EXCEPT !.key = key]
    /\ events' = events + 1
    /\ UNCHANGED << now, created, keysReady, anim, tex, timers, shift, last, life, page, animation >>

\* the keydown listener on an Arrow key
ArrowKeydown(key) ==
    /\ keysReady
    /\ bb' = [bb EXCEPT !.target = Some(ArrowTarget(key))]
    /\ input' = [Input("arrow", bb'.target) EXCEPT !.key = key]
    /\ events' = events + 1
    /\ UNCHANGED << now, created, keysReady, anim, cat, tex, timers, shift, last, life, page, animation >>

\* keydown of an Arrow key
KeyArrow(key) == MayHappen /\ ArrowKeydown(key)

\* keydown of ' ': triggerRandomBehavior picks the blink
KeySpaceBlink ==
    /\ keysReady
    /\ MayHappen
    /\ LET s == TriggerBlinkAnimation(Scene)
       IN  anim' = s.anim /\ timers' = s.timers
    /\ input' = Input("space", None)
    /\ events' = events + 1
    /\ UNCHANGED << now, created, keysReady, bb, cat, tex, shift, last, life, page, animation >>

\* keydown of ' ': triggerRandomBehavior picks the nudge, 50 units away
KeySpaceNudge(dir) ==
    /\ keysReady
    /\ MayHappen
    /\ bb' = [bb EXCEPT !.target =
                Some(Point(cat.x + Trunc(dir.x * NudgeStep, 1000),
                           cat.y + Trunc(dir.y * NudgeStep, 1000)))]
    /\ input' = Input("space", bb'.target)
    /\ events' = events + 1
    /\ UNCHANGED << now, created, keysReady, anim, cat, tex, timers, shift, last, life, page, animation >>

Next ==
    \/ Frame
    \/ CreateDone
    \/ \E key \in tex.loading : ImageLoaded(key)
    \/ \E p \in ClickPoints : PointerDown(p)
    \/ \E p \in MovePoints : PointerMove(p)
    \/ \E key \in ArrowKeys : KeyArrow(key)
    \/ KeySpaceBlink
    \/ \E dir \in NudgeDirs : KeySpaceNudge(dir)

Spec == Init /\ [][Next]_vars

(***************************************************************************)
(* One pointer-down and no further input: the seek it starts, up to        *)
(* SeekMaxFrame frames, with none of the low-probability random outcomes.  *)
(* The game loop keeps calling update() and image loads complete.          *)
(***************************************************************************)
SeekFrame == Step(SeekMaxFrame, {})

\* by its distance from the centre, where the body rests: 8, 50, 150, 200
\* and 250 (a corner of the viewport)
SeekPoints ==
    { Point(centerX + Px(8), centerY), Point(centerX + Px(30), centerY - Px(40)),
      Point(centerX, 0), Point(0, centerY), Point(Px(ViewW), Px(ViewH)) }

SeekClick == events = 0 /\ \E p \in SeekPoints : PointerDown(p)

SeekLoaded == \E key \in tex.loading : ImageLoaded(key)

SeekNext ==
    \/ SeekFrame
    \/ CreateDone
    \/ SeekLoaded
    \/ SeekClick

\* WF_vars(SeekFrame) written out: SeekFrame is enabled exactly when
\* Runnable(SeekMaxFrame) holds, and every step of it advances anim.frame
SeekFrameFair == []<>(~Runnable(SeekMaxFrame)) \/ []<><<SeekFrame>>_vars

SeekSpec ==
    /\ Init /\ [][SeekNext]_vars
    /\ SeekFrameFair /\ WF_vars(CreateDone) /\ WF_vars(SeekLoaded)

(***************************************************************************)
(* The mount effect of LonelyCat (src/components/LonelyCat.tsx) and of     *)
(* CatGame (src/unnamed/part_011), from the moment the effect has called   *)
(* init(): the import resolves, React runs the cleanup on unmount, or (in  *)
(* Strict Mode) runs the cleanup and the effect again while the container  *)
(* stays attached.  The scene itself is not looked into: an update         *)
(* callback of a live Game is only counted.                                *)
(***************************************************************************)
Components == { "LonelyCat", "CatGame" }

\* the effect has run once: init() awaits the import
Fresh(c) ==
    [ component |-> c, env |-> "production", mounted |-> TRUE,
      effects |-> << Effect("pending", "none") >>, gameRef |-> 0, reruns |-> 0, callbacks |-> 0, afterUnmount |-> FALSE,
      logged |-> 0, unhandled |-> 0 ]

\* process.env.NODE_ENV
Envs == { "production", "test" }

\* the component has rendered its container and no effect has run yet
Rendered(c, env) == [Fresh(c) EXCEPT !.env = env, !.effects = << >>]

\* the cleanup of the latest run of the effect: game?.destroy(true) on that
\* run's own variable game, gameRef.current = null; under test the effect
\* returned no cleanup
Cleanup(l) ==
    IF l.env = "test" THEN l
    ELSE LET i == Len(l.effects)
         IN  [l EXCEPT !.effects[i].game = IF @ = "alive" THEN "destroyed" ELSE @,
                       !.gameRef = 0]

RunEffectInTest(l) ==
    IF ~l.mounted \/ l.gameRef # 0 THEN l
    ELSE [l EXCEPT !.effects = Append(@, Effect("pending", "none"))]

\* the effect: nothing under test, without a container or with a Game in
\* gameRef, otherwise init() is called
RunEffect(l) ==
    IF l.env = "test" THEN l
    ELSE IF ~l.mounted \/ l.gameRef # 0 THEN l
    ELSE [l EXCEPT !.effects = Append(@, Effect("pending", "none"))]

\* the first mount: the effect has run once
MountInit ==
    /\ SceneInit
    /\ life \in { RunEffect(Rendered(c, env)) : c \in Components, env \in Envs }
    /\ page = PageLoaded
    /\ animation = Animated

\* React unmounts the component: the container ref is detached and the
\* cleanup runs
Unmount ==
    /\ life.mounted
    /\ life' = [Cleanup(life) EXCEPT !.mounted = FALSE]
    /\ UNCHANGED << sceneVars, page, animation >>

\* Strict Mode: the cleanup and then the effect again, the container stays
Rerun ==
    /\ life.mounted
    /\ life.reruns < MaxReruns
    /\ life' = RunEffect([Cleanup(life) EXCEPT !.reruns = @ + 1])
    /\ UNCHANGED << sceneVars, page, animation >>

\* the component is mounted again, as a new instance with its own refs,
\* once no import of an earlier instance is pending
Remount ==
    /\ ~life.mounted
    /\ life.reruns < MaxReruns
    /\ \A i \in 1..Len(life.effects) : life.effects[i].import # "pending"
    /\ life' = RunEffect([life EXCEPT !.mounted = TRUE, !.gameRef = 0,
                                      !.reruns = @ + 1])
    /\ UNCHANGED << sceneVars, page, animation >>

\* import('phaser') resolves for run i of the effect and init() goes on:
\* containerRef.current!.clientWidth throws without a container (LonelyCat
\* passes the rejection to console.error, CatGame leaves it unhandled),
\* otherwise the Game is constructed and stored in game and gameRef
ImportResolves(i) ==
    /\ life.effects[i].import = "pending"
    /\ life' = IF life.mounted
               THEN [life EXCEPT !.effects[i] = Effect("done", "alive"), !.gameRef = i]
               ELSE IF life.component = "LonelyCat"
               THEN [life EXCEPT !.effects[i].import = "failed", !.logged = @ + 1]
               ELSE [life EXCEPT !.effects[i].import = "failed", !.unhandled = @ + 1]
    /\ UNCHANGED << sceneVars, page, animation >>

\* the game loop of a live Game calls its scene's update()
Callback(i) ==
    /\ life.effects[i].game = "alive"
    /\ life.callbacks < MaxCallbacks
    /\ life' = [life EXCEPT !.callbacks = @ + 1,
                            !.afterUnmount = @ \/ ~life.mounted]
    /\ UNCHANGED << sceneVars, page, animation >>

MountNext ==
    \/ Unmount
    \/ Rerun
    \/ Remount
    \/ \E i \in 1..Len(life.effects) : ImportResolves(i)
    \/ \E i \in 1..Len(life.effects) : Callback(i)

MountSpec == MountInit /\ [][MountNext]_vars

(***************************************************************************)
(* The texture pipeline with slow and failing image loads, and no input:   *)
(* update callbacks go on while the images of the SlowBuckets keys are in  *)
(* flight.                                                                 *)
(***************************************************************************)
TexFrame ==
    /\ anim.frame < TexMaxFrame
    /\ ~created => anim.frame < MaxLoadFrames
    /\ created => \A key \in tex.loading : key[2] \in SlowBuckets
    /\ Advance({})

TexLoaded == \E key \in tex.loading : ImageLoaded(key)

TexThrows == \E key \in tex.loading : ImageThrows(key)

TexNext ==
    \/ TexFrame
    \/ CreateDone
    \/ TexLoaded
    \/ TexThrows

TexSpec == Init /\ [][TexNext]_vars

(***************************************************************************)
(* A slow first image: update callbacks run for up to CreateLoadFrames     *)
(* frames while create() awaits the initial texture, with the body-shift   *)
(* draw of updateNaturalAnimations and no input.                           *)
(***************************************************************************)
CreateFrame ==
    /\ anim.frame < CreateMaxFrame
    /\ ~created => anim.frame < CreateLoadFrames
    /\ created => tex.loading = {}
    /\ Advance(IF events < MaxEvents THEN ShiftDraws ELSE {})

CreateLoaded == \E key \in tex.loading : ImageLoaded(key)

CreateNext == CreateFrame \/ CreateDone \/ CreateLoaded

CreateSpec == Init /\ [][CreateNext]_vars

(***************************************************************************)
(* The original CatGame component: a sprite with the body of its 200 x 240 *)
(* spritesheet frame inside the default world bounds, a Priority of        *)
(* MoveToTarget and Wander, and a pointer-down handler.  The pointer goes  *)
(* down once, while the cat is at rest.                                    *)
(***************************************************************************)
GameStart == Point(Px(400), Px(300))

GameSpeed == Px(2)

GameHalfW == Px(200) \div 2

GameHalfH == Px(240) \div 2

\* Math.cos(angle), Math.sin(angle)
GameWanderDirs == { Point(0, -1000), Point(-600, 800) }

GameClickPoints ==
    { Point(Px(430), Px(300)), Point(Px(400), Px(200)), Point(Px(40), Px(300)) }

GameInit ==
    /\ now = 0
    /\ created = TRUE
    /\ keysReady = FALSE
    /\ anim = [ frame |-> 0, blinkTimer |-> 0, lastInteraction |-> 0,
                isMoving |-> FALSE, isSleeping |-> FALSE, eyeState |-> "open",
                currentTexture |-> << "cat", 0, "" >> ]
    /\ bb = [ target |-> None, anticipationStarted |-> FALSE,
              userProximity |-> FALSE, cursorPosition |-> None ]
    /\ cat = [ x |-> GameStart.x, y |-> GameStart.y, vx |-> 0, vy |-> 0 ]
    /\ tex = [ textureCache |-> {}, createdTextures |-> {}, registered |-> {},
               loading |-> {}, loads |-> << >>, added |-> << >>,
               sprite |-> << "cat", 0, "" >> ]
    /\ timers = << >>
    /\ shift = None
    /\ last = NoTrace
    /\ input = NoInput
    /\ events = 0
    /\ life = [Mounted EXCEPT !.component = "CatGame"]
    /\ page = PageLoaded
    /\ animation = Animated

\* one Matter step of the CatGame body: default frictionAir 0.01, and the
\* walls of matter.world.setBounds() at the edges of the canvas
GamePhysicsStep(c) ==
    LET vx1 == Trunc(c.vx * 99, 100)
        vy1 == Trunc(c.vy * 99, 100)
        x1 == c.x + vx1
        y1 == c.y + vy1
        hitX == x1 < GameHalfW \/ x1 > Px(GameW) - GameHalfW
        hitY == y1 < GameHalfH \/ y1 > Px(GameH) - GameHalfH
    IN  [x |-> Max(GameHalfW, Min(Px(GameW) - GameHalfW, x1)),
         y |-> Max(GameHalfH, Min(Px(GameH) - GameHalfH, y1)),
         vx |-> IF hitX THEN 0 ELSE vx1,
         vy |-> IF hitY THEN 0 ELSE vy1]

GameTrace(b, st, dist) ==
    [NoTrace EXCEPT !.evaluated = << [b |-> b, st |-> st] >>,
                    !.treeRan = TRUE, !.dist = dist, !.tgt = bb.target]

\* MoveToTarget.tick with a target
GameMoveToTarget(c) ==
    LET target == bb.target[1]
        dx == target.x - c.x
        dy == target.y - c.y
        dist == Hypot(dx, dy)
    IN  IF dist < ArrivalRadius
        THEN /\ cat' = [c EXCEPT !.vx = 0, !.vy = 0]
             /\ bb' = [bb EXCEPT !.target = None]
             /\ last' = GameTrace("MoveToTarget", SUCCESS, dist)
             /\ events' = events
        ELSE /\ cat' = [c EXCEPT !.vx = Trunc(dx * GameSpeed, dist),
                                 !.vy = Trunc(dy * GameSpeed, dist)]
             /\ bb' = bb
             /\ last' = GameTrace("MoveToTarget", RUNNING, dist)
             /\ events' = events

\* Wander.tick: Math.random() < 0.02 sets a new unit velocity
GameWander(c) ==
    /\ bb' = bb
    /\ last' = GameTrace("Wander", RUNNING, -1)
    /\ \/ cat' = c /\ events' = events
       \/ /\ events < GameMaxEvents
          /\ \E dir \in GameWanderDirs : cat' = [c EXCEPT !.vx = dir.x, !.vy = dir.y]
          /\ events' = events + 1

\* one frame: the Matter step, then update() ticks the Priority root
GameTick ==
    /\ LET c == GamePhysicsStep(cat)
       IN  IF bb.target # None THEN GameMoveToTarget(c) ELSE GameWander(c)
    /\ UNCHANGED << now, created, keysReady, anim, tex, timers, shift, input, life, page, animation >>

\* this.input.on('pointerdown')
GameClick ==
    /\ input.handler = ""
    /\ cat.vx = 0 /\ cat.vy = 0
    /\ \E p \in GameClickPoints :
         /\ bb' = [bb EXCEPT !.target = Some(p)]
         /\ input' = Input("pointerdown", Some(p))
    /\ UNCHANGED << now, created, keysReady, anim, cat, tex, timers, shift, last,
                    events, life, page, animation >>

GameNext == GameTick \/ GameClick

\* the game loop keeps calling update()
GameSpec == GameInit /\ [][GameNext]_vars /\ WF_vars(GameTick)

(***************************************************************************)
(* The pages HomePage and RetroTVPage (src/unnamed/part_012): the loading  *)
(* flag, the 300 ms timer of the effect and its cleanup, under unmounts,   *)
(* Strict Mode re-runs of the effect and remounts.                         *)
(***************************************************************************)
Pages == { "HomePage", "RetroTVPage" }

PageInit ==
    /\ SceneInit
    /\ life = Mounted
    /\ page \in { PageMounted(c) : c \in Pages }
    /\ animation = Animated

PageCleanupKeepsTimer(pg) == pg

\* return () => clearTimeout(t)
PageCleanup(pg) == [pg EXCEPT !.timers = {}]

\* const t = setTimeout(() => setLoading(false), 300)
PageEffect(pg) == [pg EXCEPT !.timers = @ \cup { LoadingDelayMs }]

\* PageTickMs pass
PageTick ==
    /\ page.timers # {}
    /\ \A t \in page.timers : t > 0
    /\ page' = [page EXCEPT !.timers = { Max(0, t - PageTickMs) : t \in @ }]
    /\ UNCHANGED << sceneVars, life, animation >>

\* a timer fires: setLoading(false), and the component renders again
PageTimeout ==
    /\ 0 \in page.timers
    /\ page' = IF page.mounted
               THEN [page EXCEPT !.timers = @ \ { 0 }, !.loading = FALSE,
                                 !.shown = PageRender(page.component, FALSE)]
               ELSE [page EXCEPT !.timers = @ \ { 0 }, !.lateUpdates = @ + 1]
    /\ UNCHANGED << sceneVars, life, animation >>

\* React unmounts the page: the cleanup runs, nothing is rendered
PageUnmount ==
    /\ page.mounted
    /\ page' = [PageCleanup(page) EXCEPT !.mounted = FALSE, !.shown = {}]
    /\ UNCHANGED << sceneVars, life, animation >>

\* Strict Mode: the cleanup and then the effect again, the state is kept
PageRerun ==
    /\ page.mounted
    /\ page.remounts < PageMaxRemounts
    /\ page' = [PageEffect(PageCleanup(page)) EXCEPT !.remounts = @ + 1]
    /\ UNCHANGED << sceneVars, life, animation >>

\* the page is mounted again, as a new instance: useState(true), and the
\* effect runs
PageRemount ==
    /\ ~page.mounted
    /\ page.remounts < PageMaxRemounts
    /\ page' = [PageEffect(page) EXCEPT
                  !.mounted = TRUE, !.loading = TRUE,
                  !.shown = PageRender(page.component, TRUE),
                  !.remounts = @ + 1]
    /\ UNCHANGED << sceneVars, life, animation >>

PageNext == PageTick \/ PageTimeout \/ PageUnmount \/ PageRerun \/ PageRemount

\* time passes and due timers fire
PageSpec == PageInit /\ [][PageNext]_vars /\ WF_vars(PageTick) /\ WF_vars(PageTimeout)

(***************************************************************************)
(* A long session without input: LongMaxFrame update callbacks, every      *)
(* image loading within its frame.                                         *)
(***************************************************************************)
LongFrame == Step(LongMaxFrame, {})

LongLoaded == \E key \in tex.loading : ImageLoaded(key)

LongNext == LongFrame \/ CreateDone \/ LongLoaded

LongSpec == Init /\ [][LongNext]_vars

(* A keyboard session: Arrow keys pressed while the body is at rest, at the
   start, on arrival at the target of the key before, or held by a world
   bound. *)
ArrowFrame == Step(ArrowMaxFrame, {})

ArrowLoaded == \E key \in tex.loading : ImageLoaded(key)

PressedKeys == { "ArrowRight", "ArrowUp" }

PressMoment ==
    /\ last.treeRan
    /\ \/ cat.vx = 0 /\ cat.vy = 0 /\ events = 0 /\ anim.frame = 2
       \/ cat.vx = 0 /\ cat.vy = 0 /\ last.tgt # None /\ bb.target = None
       \/ bb.target # None /\ last.contact

ArrowPress ==
    /\ events < ArrowMaxPresses
    /\ PressMoment
    /\ \E key \in PressedKeys : ArrowKeydown(key)

ArrowNext == ArrowFrame \/ CreateDone \/ ArrowLoaded \/ ArrowPress

ArrowSpec == Init /\ [][ArrowNext]_vars

(***************************************************************************)
(* Blinks: frames of BlinkTickMs, fine enough for the 150 ms of a blink,   *)
(* among long frames of BlinkLongMs and TickMs, with the Space key and the *)
(* pointer near the cat.                                                   *)
(***************************************************************************)

\* the delta of a frame
BlinkDeltas == { BlinkTickMs, BlinkLongMs, TickMs }

BlinkFrame ==
    /\ Runnable(BlinkMaxFrame)
    /\ \E el \in BlinkDeltas :
         AdvanceBy(el, IF MayHappen THEN { Draw("blink", 0, 0, 0) } ELSE {})

BlinkLoaded == \E key \in tex.loading : ImageLoaded(key)

BlinkNear == PointerMove(Point(centerX + Px(50), centerY))

BlinkNext == BlinkFrame \/ CreateDone \/ BlinkLoaded \/ KeySpaceBlink \/ BlinkNear

BlinkSpec == Init /\ [][BlinkNext]_vars

(***************************************************************************)
(* The CatAnimation component (src/components/CatAnimation.tsx): its frame *)
(* interval, with unmounts, Strict Mode re-runs of the effect and remounts.*)
(***************************************************************************)

\* return () => clearInterval(interval)
AnimationCleanup(a) == [a EXCEPT !.intervals = << >>]

\* const interval = setInterval(..., 200)
AnimationEffect(a) == [a EXCEPT !.intervals = Append(@, FrameIntervalMs)]

\* setCurrentFrame((prev) => (prev + 1) % totalFrames), and the render
Advanced(a) ==
    LET next == (a.currentFrame + 1) % totalFrames
    IN  [a EXCEPT !.prevFrame = a.currentFrame,
                  !.currentFrame = next,
                  !.backgroundPosition = BackgroundPosition(next)]

\* AnimationTickMs pass
AnimationTick ==
    /\ animation.intervals # << >>
    /\ \A i \in 1..Len(animation.intervals) : animation.intervals[i] > 0
    /\ animation' = [animation EXCEPT !.intervals =
                        [i \in 1..Len(@) |-> Max(0, @[i] - AnimationTickMs)]]
    /\ UNCHANGED << sceneVars, life, page >>

\* an interval is due: its callback runs, and it is due again in 200 ms
AnimationInterval ==
    \E i \in 1..Len(animation.intervals) :
      /\ animation.intervals[i] = 0
      /\ LET a == [animation EXCEPT !.intervals[i] = FrameIntervalMs]
         IN  animation' = IF animation.mounted THEN Advanced(a)
                          ELSE [a EXCEPT !.lateUpdates = @ + 1]
      /\ UNCHANGED << sceneVars, life, page >>

\* React unmounts the component: the cleanup runs
AnimationUnmount ==
    /\ animation.mounted
    /\ animation' = [AnimationCleanup(animation) EXCEPT !.mounted = FALSE]
    /\ UNCHANGED << sceneVars, life, page >>

\* Strict Mode: the cleanup and then the effect again, the state is kept
AnimationRerun ==
    /\ animation.mounted
    /\ animation.reruns < AnimationMaxReruns
    /\ animation' = [AnimationEffect(AnimationCleanup(animation)) EXCEPT
                        !.reruns = @ + 1]
    /\ UNCHANGED << sceneVars, life, page >>

\* the component is mounted again, as a new instance: useState(0), and the
\* effect runs
AnimationRemount ==
    /\ ~animation.mounted
    /\ animation.reruns < AnimationMaxReruns
    /\ animation' = [AnimationEffect(animation) EXCEPT
                        !.mounted = TRUE, !.currentFrame = 0, !.prevFrame = 0,
                        !.backgroundPosition = BackgroundPosition(0),
                        !.reruns = @ + 1]
    /\ UNCHANGED << sceneVars, life, page >>

AnimationNext ==
    \/ AnimationTick
    \/ AnimationInterval
    \/ AnimationUnmount
    \/ AnimationRerun
    \/ AnimationRemount

AnimationSpec == Init /\ [][AnimationNext]_vars

(***************************************************************************)
(* Properties.                                                             *)
(***************************************************************************)
\* the step is an update callback in which the behaviour tree was ticked
TreeTicked == anim'.frame = anim.frame + 1 /\ last'.treeRan

\* C1: on every tick of the behaviour tree one behaviour returns a status
\* other than FAILURE, so never do all four fail on the same tick
C1_SomeBehaviourDrives ==
    last.treeRan => \E i \in 1..Len(last.evaluated) : last.evaluated[i].st # FAILURE

\* C2: on every tick the behaviours are evaluated in priority order up to
\* the first that does not fail, none after it; at most one behaviour
\* calls setVelocity, a failing behaviour never does, and without a call
\* the body's velocity is what it was before the tick
C2_OneVelocityWriter ==
    last.treeRan =>
      /\ Len(last.evaluated) \in 1..Len(Children)
      /\ \A i \in 1..Len(last.evaluated) :
           /\ last.evaluated[i].b = Children[i]
           /\ i < Len(last.evaluated) => last.evaluated[i].st = FAILURE
           /\ last.evaluated[i].st = FAILURE =>
                \A j \in 1..Len(last.setters) : last.setters[j] # Children[i]
      /\ Len(last.setters) <= 1
      /\ last.setters = << >> =>
           cat.vx = last.before.vx /\ cat.vy = last.before.vy

\* a tick on which three behaviours failed before the fourth one ran, and
\* a tick on which the one evaluated behaviour set the velocity
C2_Witness ==
    /\ last.treeRan
    /\ Len(last.evaluated) = 4
    /\ last.setters = << "EnhancedWander" >>

\* C3: the cat sleeps only while more than 30000 ms have passed since the
\* last interaction
C3_SleepOnlyWhileIdle ==
    anim.isSleeping => now - anim.lastInteraction > SleepAfterMs

\* C4: a sleeping cat has no pending target
C4_NoTargetWhileSleeping ==
    anim.isSleeping => bb.target = None

Cleared ==
    /\ bb'.target = None
    /\ cat'.vx = 0 /\ cat'.vy = 0
    /\ ~bb'.anticipationStarted

\* the tick ran with a pending target less than 10 units away
TickWithinArrival ==
    TreeTicked /\ bb.target # None /\ last'.dist \in 0..(ArrivalRadius - 1)

\* C5 as claimed: a tick that starts with a pending target less than 10
\* units away clears the target, zeroes the velocity and resets
\* anticipationStarted, whatever anticipationStarted was
C5_ArrivalWhateverAnticipation ==
    [][TickWithinArrival => Cleared]_vars

\* C5: such a tick clears the target, zeroes the velocity and resets
\* anticipationStarted when anticipationStarted was true; when it was false
\* the tick only sets it, with the target and the velocity as they were
C5_ArrivalAfterAnticipation ==
    [][TickWithinArrival =>
         IF bb.anticipationStarted THEN Cleared
         ELSE /\ bb'.target = bb.target
              /\ bb'.anticipationStarted
              /\ cat'.vx = last'.before.vx /\ cat'.vy = last'.before.vy]_vars

\* the seek has just arrived: target cleared by EnhancedMoveToTarget
C5_Witness ==
    /\ last.treeRan
    /\ last.evaluated = << [b |-> "EnhancedMoveToTarget", st |-> SUCCESS] >>
    /\ last.dist \in 0..(ArrivalRadius - 1)
    /\ bb.target = None /\ ~bb.anticipationStarted
    /\ cat.vx = 0 /\ cat.vy = 0

\* the step is a tick on which EnhancedMoveToTarget commanded a velocity
SeekDrove == TreeTicked /\ last'.cmd >= 0

\* C6: the speed EnhancedMoveToTarget commands is
\* min(currentSpeed + 0.1, 3, 0.05 d), and the commanded velocity has that
\* magnitude and points from the body to the target
C6_CommandedSpeed ==
    [][SeekDrove =>
         LET currentSpeed == Hypot(last'.before.vx, last'.before.vy)
             d == last'.dist
             dx == bb.target[1].x - last'.before.x
             dy == bb.target[1].y - last'.before.y
             c == last'.cmd
         IN  /\ bb.target # None /\ bb.anticipationStarted /\ d >= ArrivalRadius
             /\ d = Hypot(dx, dy)
             /\ c = Min(Min(currentSpeed + Px(1) \div 10, Px(3)), d \div 20)
             /\ c <= Px(3) /\ 20 * c <= d /\ c <= currentSpeed + Px(1) \div 10
             /\ Abs(Hypot(cat'.vx, cat'.vy) - c) <= 2
             /\ cat'.vx * dx >= 0 /\ cat'.vy * dy >= 0
             /\ Abs(cat'.vx * dy - cat'.vy * dx) <= Abs(dx) + Abs(dy)]_vars

\* a tick on which the ramp bound the speed, and one on which the distance did
C6_Witness ==
    /\ last.cmd > 0
    /\ last.cmd = Hypot(last.before.vx, last.before.vy) + acceleration
    /\ 20 * (last.cmd + 1) <= last.dist

\* two consecutive ticks command a velocity toward the same target
SeekContinues ==
    SeekDrove /\ last.treeRan /\ last.cmd >= 0 /\ last'.tgt = last.tgt

\* C7 as claimed: during a seek the commanded speed never decreases
C7_SpeedNeverDecreases ==
    [][SeekContinues => last'.cmd >= last.cmd]_vars

\* C7: during a seek, away from the world bounds, the commanded speed
\* decreases only to min(maxSpeed, 0.05 d), the cap the remaining distance d
\* sets
C7_SpeedDecreasesOnlyToCap ==
    [][SeekContinues /\ ~last'.contact =>
         \/ last'.cmd >= last.cmd
         \/ last'.cmd = Min(maxSpeed, last'.dist \div 20)]_vars

\* the cat decelerates on approach: the cap is below the acceleration ramp
C7_Witness ==
    /\ last.cmd > 0
    /\ last.cmd = Min(maxSpeed, last.dist \div 20)
    /\ last.cmd < Hypot(last.before.vx, last.before.vy)

\* a tick with no pending target and no user in proximity
IdleTick == TreeTicked /\ bb.target = None /\ ~bb.userProximity

FellAsleep == anim'.isSleeping /\ cat'.vx = 0 /\ cat'.vy = 0

\* C9 as claimed: such a tick at least 30000 ms after the last interaction
\* puts the cat to sleep
C9_SleepsAtThreshold ==
    [][IdleTick /\ now' - anim.lastInteraction >= SleepAfterMs => FellAsleep]_vars

\* C9: such a tick more than 30000 ms after the last interaction puts the
\* cat to sleep, with velocity (0,0)
C9_SleepsPastThreshold ==
    [][IdleTick /\ now' - anim.lastInteraction > SleepAfterMs => FellAsleep]_vars

\* SleepMode has just put the cat to sleep
C9_Witness ==
    /\ last.treeRan
    /\ Len(last.evaluated) = 3 /\ last.evaluated[3] = [b |-> "SleepMode", st |-> SUCCESS]
    /\ anim.isSleeping /\ cat.vx = 0 /\ cat.vy = 0
    /\ bb.target = None /\ ~bb.userProximity

\* C10: a pointer-down leaves isSleeping false, and afterwards isSleeping
\* turns true only on a tick more than 30000 ms after the last interaction
C10_WakesAndStaysAwake ==
    [][/\ (\E p \in ClickPoints : PointerDown(p)) => ~anim'.isSleeping
       /\ (~anim.isSleeping /\ anim'.isSleeping) =>
            TreeTicked /\ now' - anim.lastInteraction > SleepAfterMs]_vars

\* a pointer-down woke the sleeping cat and ticks have run since
C10_Witness ==
    /\ input.handler = "pointerdown" /\ input.asleep
    /\ ~anim.isSleeping
    /\ last.treeRan /\ now > anim.lastInteraction

\* the body rests within 10 units of the clicked point and the display
\* state is idle
AtRestAt(t) ==
    /\ t # None
    /\ bb.target = None
    /\ Hypot(t[1].x - cat.x, t[1].y - cat.y) < ArrivalRadius
    /\ cat.vx = 0 /\ cat.vy = 0
    /\ ~anim.isMoving /\ ~anim.isSleeping

C11_ProximityKeepsAwake ==
    [][TreeTicked /\ bb.userProximity => ~anim'.isSleeping]_vars

\* how many times key occurs in the log
Count(log, key) == Cardinality({ i \in 1..Len(log) : log[i] = key })

\* C12: for every texture key addCanvas is invoked at most once and at
\* most one image load is started, and a tick that requests a key again
\* raises no error
C12_RegisteredOnce ==
    /\ \A key \in tex.createdTextures :
         Count(tex.added, key) <= 1 /\ Count(tex.loads, key) <= 1
    /\ last.treeRan => ~last.threw /\ ~last.rejected

\* updateCatTexture has requested again a key whose image is in flight
C12_Witness ==
    /\ last.derived # ""
    /\ tex.sprite \in tex.loading
    /\ Count(tex.loads, tex.sprite) = 1

\* C13: when drawing or registering the image of a key throws, the swap is
\* skipped: the sprite's texture and currentTexture stay what they were
C13_FailureSkipsSwap ==
    [][TexThrows =>
         tex'.sprite = tex.sprite /\ anim'.currentTexture = anim.currentTexture]_vars

-----------------------------------------------------------------------------
\* The texture generators called directly, in any order and with any
\* arguments, on the memo table of one SVGTextureManager.

GenFrames == 0..GenMaxFrame

GenVelocities == { << 960, 0 >>, << 1040, 0 >>, << 0, 700 >>, << -600, 800 >> }

GenCall(kind, vx, vy, frame, eyeState, g) ==
    /\ Cardinality(tex.textureCache) <= GenMaxCalls
    /\ tex' = [tex EXCEPT !.textureCache = g.cache]
    /\ last' = [NoTrace EXCEPT
                  !.generated = Some(Generated(kind, vx, vy, frame, eyeState, g.svg))]
    /\ UNCHANGED << now, created, keysReady, anim, bb, cat, timers, shift, input,
                    events, life, page, animation >>

GenIdle ==
    \E frame \in GenFrames, eyeState \in { "open", "closed" } :
      GenCall("idle", 0, 0, frame, eyeState,
              generateIdleTexture(tex.textureCache, frame, eyeState))

GenMoving ==
    \E v \in GenVelocities, frame \in GenFrames :
      GenCall("moving", v[1], v[2], frame, "open",
              generateMovingTexture(tex.textureCache, v[1], v[2], frame))

GenSleeping ==
    \E frame \in GenFrames :
      GenCall("sleeping", 0, 0, frame, "open",
              generateSleepingTexture(tex.textureCache, frame))

GenNext == GenIdle \/ GenMoving \/ GenSleeping

GenSpec == Init /\ [][GenNext]_vars

\* what a generation that never consults the memo table produces
FreshSvg(c) ==
    CASE c.kind = "idle" -> IdleSvg(c.frame, c.eyeState)
      [] c.kind = "moving" -> MovingSvg(c.vx, c.vy, c.frame)
      [] c.kind = "sleeping" -> SleepingSvg(c.frame)

\* C14: once the component is unmounted every Game constructed for it has
\* been destroyed, no update callback has fired since and no error was
\* left unhandled
C14_UnmountDestroysGames ==
    ~life.mounted =>
      /\ \A i \in 1..Len(life.effects) : life.effects[i].game # "alive"
      /\ ~life.afterUnmount
      /\ life.unhandled = 0

C16_NoSleepingToMoving == ~(last.derived = "moving" /\ last.prevDerived = "sleeping")

\* C17: isMoving and isSleeping are never both true
C17_MovingExcludesSleeping == ~(anim.isMoving /\ anim.isSleeping)

\* a pointer-down, pointer-move or keydown handler runs
HandlerRuns == events' = events + 1 /\ anim'.frame = anim.frame

\* C18: an input handler leaves the body's position and velocity alone; it
\* writes only the blackboard keys target, userProximity and cursorPosition
\* and the animation-state fields lastInteraction, isSleeping and eyeState
\* (with the timer that reopens the eyes)
C18_HandlersLeaveBody ==
    [][HandlerRuns =>
         /\ cat' = cat
         /\ bb' = [bb EXCEPT !.target = bb'.target,
                             !.userProximity = bb'.userProximity,
                             !.cursorPosition = bb'.cursorPosition]
         /\ anim' = [anim EXCEPT !.lastInteraction = anim'.lastInteraction,
                                 !.isSleeping = anim'.isSleeping,
                                 !.eyeState = anim'.eyeState]
         /\ \/ timers' = timers
            \/ /\ timers' = Append(timers, [what |-> "open", left |-> BlinkMs])
               /\ anim'.eyeState = "closed"
         /\ UNCHANGED << now, created, keysReady, tex, shift >>]_vars

\* an Arrow key has set a target one step away and the body is still at rest
C18_Witness ==
    /\ input.handler = "arrow"
    /\ bb.target = input.at
    /\ bb.target # None
    /\ cat.vx = 0 /\ cat.vy = 0
    /\ Hypot(bb.target[1].x - cat.x, bb.target[1].y - cat.y) = ArrowStep

\* C19: userProximity is true exactly when the last pointer-move position
\* is less than 100 units from where the body is now
C19_ProximityTracksBody ==
    bb.userProximity <=>
      /\ input.pointer # None
      /\ Hypot(input.pointer[1].x - cat.x, input.pointer[1].y - cat.y) < ProximityRadius

\* C20: while no target is pending anticipationStarted is false, and a step
\* clears the target exactly when it clears anticipationStarted
C20_ResetTogether ==
    /\ [](bb.target = None => ~bb.anticipationStarted)
    /\ [][(bb.target # None /\ bb'.target = None)
            <=> (bb.anticipationStarted /\ ~bb'.anticipationStarted)]_vars

\* EnhancedMoveToTarget has just arrived at a target it had anticipated
C20_Witness ==
    /\ last.evaluated = << [b |-> "EnhancedMoveToTarget", st |-> SUCCESS] >>
    /\ last.tgt # None
    /\ last.dist < ArrivalRadius
    /\ bb.target = None
    /\ ~bb.anticipationStarted

\* C21: an update tick that runs before create() has made the sprite skips
\* what needs the sprite: update() does not throw and the promise of
\* updateCatTexture() is not rejected
C21_TicksBeforeCreateSkip == ~created => ~last.threw /\ ~last.rejected

\* C22: once no image load is in flight the sprite shows, and
\* currentTexture names, the key of the latest updateCatTexture call,
\* whatever the order in which the loads completed
C22_LatestRequestWins ==
    tex.loading = {} /\ last.wanted # None =>
      tex.sprite = last.wanted[1] /\ anim.currentTexture = last.wanted[1]

\* C23: in CatGame, after a pointer-down the cat eventually comes within 10
\* units of the clicked point, stops there and the target is cleared
C23_ClickIsReached ==
    (input.handler = "pointerdown" /\ bb.target = input.at)
      ~> (/\ bb.target = None
          /\ last.evaluated = << [b |-> "MoveToTarget", st |-> SUCCESS] >>
          /\ last.dist < ArrivalRadius
          /\ cat.vx = 0 /\ cat.vy = 0)

\* C24: under NODE_ENV 'test' the effect never calls init(): no import is
\* started, no Game is constructed, gameRef stays null and no error is
\* logged or left unhandled, through every mount and unmount
C24_TestEnvStartsNothing ==
    life.env = "test" =>
      /\ life.effects = << >>
      /\ life.gameRef = 0
      /\ life.callbacks = 0
      /\ life.logged = 0 /\ life.unhandled = 0

\* under test the component was mounted, unmounted, mounted again and
\* unmounted again
C24_Witness == life.env = "test" /\ ~life.mounted /\ life.reruns = MaxReruns

\* C25: a page starts loading and shows only the indicator; while it stays
\* mounted the flag eventually becomes false and the scene is shown; the
\* flag of a mounted page never returns to true; the indicator and the
\* scene are never shown together; the timer never updates an unmounted
\* page
C25_LoadingThenScene ==
    /\ page.loading /\ page.shown = { "loading" }
    /\ [](page.mounted => page.shown = PageRender(page.component, page.loading))
    /\ []("loading" \notin page.shown \/ page.shown = { "loading" })
    /\ [](page.lateUpdates = 0)
    /\ [][page.mounted /\ page'.mounted /\ ~page.loading => ~page'.loading]_vars
    /\ (page.mounted /\ page.loading) ~> (~page.mounted \/ ~page.loading)

\* the timer has fired on a mounted page, which now shows its scene
C25_Witness ==
    /\ page.mounted /\ ~page.loading
    /\ page.timers = {}
    /\ "loading" \notin page.shown /\ page.shown # {}
    /\ page.remounts = 0

\* the step is the first tick after a handler assigned the pending target
FirstTickOfTarget ==
    TreeTicked /\ ~input.ticked /\ input.at # None /\ bb.target = input.at

\* C26: the first tick after any target assignment triggers the
\* anticipation (anticipationStarted goes from false to true) and commands
\* no velocity
C26_AnticipationPerTarget ==
    [][FirstTickOfTarget =>
         /\ ~bb.anticipationStarted /\ bb'.anticipationStarted
         /\ last'.setters = << >>]_vars

\* the body's position displaced by 100 units along the key's axis
Displaced(key) ==
    CASE key = "ArrowUp"    -> [x |-> cat.x, y |-> cat.y - Px(100)]
      [] key = "ArrowDown"  -> [x |-> cat.x, y |-> cat.y + Px(100)]
      [] key = "ArrowLeft"  -> [x |-> cat.x - Px(100), y |-> cat.y]
      [] key = "ArrowRight" -> [x |-> cat.x + Px(100), y |-> cat.y]

C28_SwapOnlyWhenDifferent ==
    [][\A key \in tex.loading :
         ImageLoaded(key) \/ ImageThrows(key) => anim.currentTexture # key]_vars

\* C29: the sprite's texture is never a key whose image is still loading,
\* that is, whose addCanvas has not been reached
C29_SetAfterRegistered == created => tex.sprite \notin tex.loading

\* the keys updateCatTexture can build, and the initial texture
TextureKeys ==
    { InitialKey }
      \cup { << kind, b, "" >> : kind \in { "cat-sleeping", "cat-moving" },
                                b \in 0..(FrameBuckets - 1) }
      \cup { << "cat-idle", b, e >> : b \in 0..(FrameBuckets - 1),
                                     e \in { "open", "closed" } }

\* C30: createdTextures never loses a key it was given, and holds none but
\* the initial key and the 60 sleeping, 60 moving and 120 idle bucket keys
C30_CreatedTexturesBounded ==
    /\ \A i \in 1..Len(tex.loads) : tex.loads[i] \in tex.createdTextures
    /\ tex.createdTextures \subseteq TextureKeys
    /\ Cardinality(tex.createdTextures) <= 4 * FrameBuckets + 1

\* past frame 60 a key of a bucket that has wrapped around is in the set
C30_Witness ==
    /\ anim.frame > FrameBuckets
    /\ last.wanted # None
    /\ last.wanted[1][2] = anim.frame - FrameBuckets
    /\ last.wanted[1] \in tex.createdTextures

\* C31: the memo table of the generators never holds more entries than
\* there are display states (60 sleeping, 60 moving and 120 idle buckets,
\* and the initial one), however long the session
C31_TextureCacheBounded == Cardinality(tex.textureCache) <= 4 * FrameBuckets + 1

\* the memo entries of moving derivations of earlier frames that fall into
\* the frame bucket of the derivation just made, for another rounded
\* direction or speed
EarlierMovingOfBucket ==
    IF last.generated = None THEN {}
    ELSE LET g == last.generated[1]
             k == MovingCacheKey(g.vx, g.vy, g.frame)
         IN  { e \in tex.textureCache :
                 /\ e.key[1] = "moving"
                 /\ e.key[4] < g.frame
                 /\ e.key[4] % FrameBuckets = g.frame % FrameBuckets
                 /\ << e.key[2], e.key[3] >> # << k[2], k[3] >> }

\* C32: a moving derivation asks for another texture key than an earlier
\* moving derivation of the same frame bucket whose rounded direction or
\* speed was different
C32_MovingKeyDiscriminates ==
    (last.derived = "moving" /\ last.wanted # None) =>
        \A e \in EarlierMovingOfBucket :
            last.wanted[1] # TextureKey("cat-moving", e.key[4], "")


\* C33: no assigned target is held forever: once the anticipation is done,
\* an update with a target pending moves the body or clears the target (an
\* update that leaves body and blackboard as it found them does so again on
\* every later frame, and without input the target is never cleared)
C33_NoTargetHeldForever ==
    [][ (bb.target # None /\ bb.anticipationStarted /\ anim.frame' # anim.frame)
            => (cat' # cat \/ bb' # bb) ]_vars

\* a tick drove the body toward a target 10 or more away, and the next tick
\* measures the distance to the same target
SeekMeasuredAgain ==
    /\ TreeTicked
    /\ last.treeRan /\ last.cmd >= 0 /\ last.dist >= ArrivalRadius
    /\ last'.tgt = last.tgt /\ last'.dist >= 0

\* the offset to the target has not changed sign
NotBeyond(was, is) == (was >= 0 /\ is >= 0) \/ (was <= 0 /\ is <= 0)

\* C34: away from the world bounds, the speed a driving tick commands is
\* positive and at most 0.05 d, and the next tick finds the body closer to
\* the target, and not beyond it
C34_DrivingApproaches ==
    [][SeekMeasuredAgain /\ ~last'.contact =>
         /\ last.cmd > 0
         /\ 20 * last.cmd <= last.dist
         /\ last'.dist < last.dist
         /\ NotBeyond(last.tgt[1].x - last.before.x, last.tgt[1].x - last'.before.x)
         /\ NotBeyond(last.tgt[1].y - last.before.y, last.tgt[1].y - last'.before.y)]_vars

\* C35: a sleeping cat does not move: after a tick that leaves isSleeping
\* true the velocity the tree commanded is (0, 0), and EnhancedMoveToTarget
\* has commanded no speed on it
C35_SleepingCatIsStill ==
    (last.treeRan /\ anim.isSleeping) =>
        (cat.vx = 0 /\ cat.vy = 0 /\ last.cmd <= 0)

\* the 200 x 240 window at the background offset lies in the 600 x 720 sheet
InSheet(pos) ==
    /\ pos.x <= 0 /\ -pos.x + 200 <= 600
    /\ pos.y <= 0 /\ -pos.y + 240 <= 720

\* C36: the frame of CatAnimation is always in 0..8 and the background
\* offset is (-(frame mod 3) * 200, -floor(frame / 3) * 240), inside the
\* sheet; each interval tick advances the frame to (frame + 1) mod 9; after
\* the unmount no interval is left and the frame changes no more
C36_FrameCycles ==
    /\ [](/\ animation.currentFrame \in 0..8
          /\ animation.backgroundPosition =
                [x |-> -(animation.currentFrame % 3) * 200,
                 y |-> -(animation.currentFrame \div 3) * 240]
          /\ InSheet(animation.backgroundPosition)
          /\ ~animation.mounted =>
                animation.intervals = << >> /\ animation.lateUpdates = 0)
    /\ [][AnimationInterval =>
            animation'.currentFrame =
                IF animation.currentFrame = 8 THEN 0
                ELSE animation.currentFrame + 1]_vars
    /\ [][~animation.mounted /\ ~animation'.mounted =>
            animation'.currentFrame = animation.currentFrame]_vars

\* the interval has taken the frame from 8 back to 0, after a re-run of the
\* effect
C36_Witness ==
    /\ animation.mounted
    /\ animation.reruns > 0
    /\ animation.prevFrame = 8
    /\ animation.currentFrame = 0
    /\ animation.backgroundPosition = [x |-> 0, y |-> 0]

\* a delayedCall that opens the eyes is pending, due within el
OpenDueWithin(el) ==
    \E i \in 1..Len(timers) :
        timers[i].what = "open" /\ timers[i].left > 0 /\ timers[i].left <= el

\* triggerBlinkAnimation has run during the latest update callback
BlinkedThisFrame ==
    \E i \in 1..Len(timers) : timers[i].what = "open" /\ timers[i].left = 150

FrameTicked == anim'.frame = anim.frame + 1

\* C37: closed eyes always have a callback pending that opens them within
\* 150 ms, and the update on which it is due leaves them open unless a new
\* blink has begun on it, also with several blinks pending; the blink timer
\* is back at 0 whenever it has passed its threshold (3000 to 5000 ms), and
\* grows by delta otherwise; on a frame the cat sleeps through no blink
\* begins
C37_BlinkCompletes ==
    /\ [](anim.eyeState = "closed" => OpenDueWithin(150))
    /\ [][FrameTicked /\ anim.eyeState = "closed" /\ OpenDueWithin(now' - now) =>
            anim'.eyeState = "open" \/ BlinkedThisFrame']_vars
    /\ [][FrameTicked =>
            LET t == anim.blinkTimer + (now' - now)
            IN  /\ anim'.blinkTimer \in { 0, t }
                /\ t > 5000 => anim'.blinkTimer = 0
                /\ t <= 3000 => anim'.blinkTimer = t
                /\ anim'.blinkTimer <= 5000]_vars
    /\ [][FrameTicked /\ anim.isSleeping /\ anim'.isSleeping =>
            ~BlinkedThisFrame']_vars

\* two blinks overlapped, by the timer and by the Space key 50 ms later: the
\* callback of the first has opened the eyes, that of the second is pending
C37_Witness ==
    /\ input.handler = "space"
    /\ anim.eyeState = "open"
    /\ Len(timers) = 1
    /\ timers[1].what = "open" /\ timers[1].left < 150

=============================================================================
